---- MODULE Spec2Model ----
(***************************************************************************)
(* The sampling pipeline of src/src/App.jsx: the runLoop instances, the    *)
(* pause/resume and reset handlers, and the React state cells they update. *)
(*                                                                         *)
(* Raw scores are integers in tenths (0..10 for 0.0..1.0); percentages and *)
(* smoothed values are exact rationals <<numerator, denominator>>, so the  *)
(* rounding of IEEE doubles is not modelled.  A queued React updater runs  *)
(* against the then-current cell, in queue order, before anything else     *)
(* reads the cell, so each handler's updates are applied in the step that  *)
(* queues them.  The cells that only feed the display (status, dominant)   *)
(* are left out.                                                           *)
(***************************************************************************)
EXTENDS Integers, Sequences, FiniteSets, TLC

\* ------------------------------------------------------------------ bounds
MaxLoops == 2      \* runLoop instances that can be live at once
MaxTicks == 3      \* successful ticks in one run
MaxClock == 2      \* clock advances in one run
ClockStep == 8000  \* milliseconds per clock advance

\* --------------------------------------------------------------- constants
TimerMs == 300
timeWindowMs == 15000
NULL == -1

smoothingFactorHalf == <<1, 2>>

smoothingFactor == <<1, 10>>

EMOTIONS == <<"angry", "disgusted", "fearful", "happy", "neutral", "sad", "surprised">>

Keys == {EMOTIONS[i] : i \in 1..Len(EMOTIONS)}

ProfileKeys == <<"happy", "surprised", "fearful", "angry", "disgusted", "sad">>

Targets(h, su, f, a, d, sa) ==
    [k \in {ProfileKeys[i] : i \in 1..Len(ProfileKeys)} |->
        CASE k = "happy" -> h
          [] k = "surprised" -> su
          [] k = "fearful" -> f
          [] k = "angry" -> a
          [] k = "disgusted" -> d
          [] OTHER -> sa]

EMOTION_STATES ==
    << [name |-> "Highly Engaged",            targetPercentages |-> Targets(35, 20, 0, 0, 0, 0)],
       [name |-> "Constructively Struggling", targetPercentages |-> Targets(15, 10, 10, 10, 0, 10)],
       [name |-> "Confused / Overloaded",     targetPercentages |-> Targets(5, 15, 15, 10, 5, 10)],
       [name |-> "Disengaged / Distracted",   targetPercentages |-> Targets(5, 5, 5, 5, 5, 20)],
       [name |-> "Actively Resistant",        targetPercentages |-> Targets(0, 5, 5, 40, 25, 10)] >>

InitialState == "Actively Resistant"

\* ------------------------------------------------------ exact arithmetic
Abs(n) == IF n < 0 THEN -n ELSE n

Max(a, b) == IF a > b THEN a ELSE b

RECURSIVE GCD(_, _)
GCD(a, b) == IF b = 0 THEN a ELSE GCD(b, a % b)

Norm(n, d) == LET g == GCD(Abs(n), d) IN <<n \div g, d \div g>>

LCM(a, b) == a * (b \div GCD(a, b))

RZero == <<0, 1>>

RInt(n) == <<n, 1>>

RAdd(x, y) == LET L == LCM(x[2], y[2])
              IN Norm(x[1] * (L \div x[2]) + y[1] * (L \div y[2]), L)

RSub(x, y) == LET L == LCM(x[2], y[2])
              IN Norm(x[1] * (L \div x[2]) - y[1] * (L \div y[2]), L)

RMul(x, y) == LET a == Norm(x[1], y[2])
                  b == Norm(y[1], x[2])
              IN Norm(a[1] * b[1], a[2] * b[2])

RAbs(x) == <<Abs(x[1]), x[2]>>

RLess(x, y) == LET L == LCM(x[2], y[2])
               IN x[1] * (L \div x[2]) < y[1] * (L \div y[2])

\* ------------------------------------------------------------- readings
\* A ScoreVector as the classifier delivers it: a sequence of <<key, score>>
\* entries in the object's own key order.

Reading(n, h, sa, a, f, d, su) ==
    << <<"neutral", n>>, <<"happy", h>>, <<"sad", sa>>, <<"angry", a>>,
       <<"fearful", f>>, <<"disgusted", d>>, <<"surprised", su>> >>

Readings ==
    { Reading(1, 1, 0, 7, 0, 0, 1),
      Reading(10, 0, 0, 0, 0, 0, 0) }

EmptyMap == [k \in {} |-> RZero]

RECURSIVE SumScores(_)
SumScores(entries) ==
    IF entries = <<>> THEN 0 ELSE Head(entries)[2] + SumScores(Tail(entries))

ScoreOf(entries, k) ==
    LET i == CHOOSE j \in 1..Len(entries) : entries[j][1] = k IN entries[i][2]

\* ---------------------------------------------------------- pure helpers
calculateEmotionPercentagesKeepsNeutral(expressions) ==
    LET total == SumScores(expressions)
    IN IF total = 0 THEN EmptyMap
       ELSE [k \in {expressions[i][1] : i \in 1..Len(expressions)} |->
                RMul(Norm(ScoreOf(expressions, k), total), RInt(100))]

calculateEmotionPercentages(expressions) ==
    LET nonNeutralEmotions == SelectSeq(expressions, LAMBDA e : e[1] # "neutral")
        total == SumScores(nonNeutralEmotions)
    IN IF total = 0 THEN EmptyMap
       ELSE [k \in {nonNeutralEmotions[i][1] : i \in 1..Len(nonNeutralEmotions)} |->
                RMul(Norm(ScoreOf(nonNeutralEmotions, k), total), RInt(100))]

Lookup(m, k) == IF k \in DOMAIN m THEN m[k] ELSE RZero

RECURSIVE TotalDifference(_, _, _)
TotalDifference(target, actual, i) ==
    IF i > Len(ProfileKeys) THEN RZero
    ELSE RAdd(RAbs(RSub(RInt(target[ProfileKeys[i]]), Lookup(actual, ProfileKeys[i]))),
              TotalDifference(target, actual, i + 1))

avgDifference(state, emotionPercentages) ==
    RMul(TotalDifference(state.targetPercentages, emotionPercentages, 1),
         <<1, Len(ProfileKeys)>>)

BetterScore(a, b) == RLess(a, b)

RECURSIVE BestMatch(_, _, _)
BestMatch(emotionPercentages, i, best) ==
    IF i > Len(EMOTION_STATES) THEN best
    ELSE LET avg == avgDifference(EMOTION_STATES[i], emotionPercentages)
         IN IF best.infinite \/ BetterScore(avg, best.score)
            THEN BestMatch(emotionPercentages, i + 1,
                           [state |-> EMOTION_STATES[i].name, score |-> avg, infinite |-> FALSE])
            ELSE BestMatch(emotionPercentages, i + 1, best)

detectCurrentStateOfAnything(emotionPercentages) ==
    BestMatch(emotionPercentages, 1, [state |-> "", score |-> RZero, infinite |-> TRUE]).state

detectCurrentState(emotionPercentages) ==
    IF DOMAIN emotionPercentages = {} THEN ""
    ELSE BestMatch(emotionPercentages, 1,
                   [state |-> "", score |-> RZero, infinite |-> TRUE]).state

RECURSIVE InsertDesc(_, _)
InsertDesc(e, sorted) ==
    IF sorted = <<>> THEN <<e>>
    ELSE IF Head(sorted)[2] >= e[2] THEN <<Head(sorted)>> \o InsertDesc(e, Tail(sorted))
    ELSE <<e>> \o sorted

RECURSIVE SortDesc(_)
SortDesc(entries) ==
    IF entries = <<>> THEN <<>>
    ELSE InsertDesc(entries[Len(entries)], SortDesc(SubSeq(entries, 1, Len(entries) - 1)))

TopEntry(expressions) == SortDesc(expressions)[1]

ZeroTotals == [k \in Keys |-> 0]

RECURSIVE OverallFromLastWins(_, _, _, _)
OverallFromLastWins(counts, i, maxKey, maxVal) ==
    IF i > Len(EMOTIONS) THEN (IF maxVal > 0 THEN maxKey ELSE "null")
    ELSE IF counts[EMOTIONS[i]] >= maxVal
         THEN OverallFromLastWins(counts, i + 1, EMOTIONS[i], counts[EMOTIONS[i]])
         ELSE OverallFromLastWins(counts, i + 1, maxKey, maxVal)

RECURSIVE OverallFrom(_, _, _, _)
OverallFrom(counts, i, maxKey, maxVal) ==
    IF i > Len(EMOTIONS) THEN (IF maxVal > 0 THEN maxKey ELSE "null")
    ELSE IF counts[EMOTIONS[i]] > maxVal
         THEN OverallFrom(counts, i + 1, EMOTIONS[i], counts[EMOTIONS[i]])
         ELSE OverallFrom(counts, i + 1, maxKey, maxVal)

overallKey(counts) == OverallFrom(counts, 1, "null", -1)

\* ------------------------------------------------------------------ state
VARIABLES
    clock,               \* performance.now()
    initPending,         \* init() calls that have not finished
    videoPlaying,        \* videoRef.current is set, not paused and not ended
    runningRef,
    isRunning,
    lastTickRef,
    emotionCounts,
    emotionDurationsMs,
    emotionHistory,
    currentState,
    smoothedEmotions,
    loops,               \* the runLoop instances, by slot; failed: its latest
                         \* completed tick threw
    ticksDone,           \* successful ticks so far (bounded by MaxTicks)
    offUntil,            \* time the active flag last went from false to true, or NULL
    baselineAt,          \* time of the latest tick start, failure, resume or start, or NULL
    frame                \* FrameSpec: the ScoreVector the classifier returns for what
                         \* is in front of the camera; Spec draws it in DetectOk

vars == <<clock, initPending, videoPlaying, runningRef, isRunning,
          lastTickRef, emotionCounts, emotionDurationsMs, emotionHistory, currentState,
          smoothedEmotions, loops, ticksDone, offUntil, baselineAt, frame>>

sessionVars == <<emotionCounts, emotionDurationsMs, emotionHistory>>

readingVars == <<currentState, smoothedEmotions, ticksDone>>

controlVars == <<initPending, videoPlaying, runningRef, isRunning>>

LoopIds == 1..MaxLoops

IdleLoop == [pc |-> "idle", now |-> 0, prev |-> 0, wakeAt |-> 0,
             closureState |-> "", failed |-> FALSE]

Live == {l \in LoopIds : loops[l].pc # "idle"}

HasFreeSlot == \E l \in LoopIds : loops[l].pc = "idle"

FreeSlot == CHOOSE l \in LoopIds : loops[l].pc = "idle" /\ \A m \in LoopIds : loops[m].pc = "idle" => l <= m

\* React.StrictMode mounts the component, runs the effect's cleanup and mounts
\* it again in a development build, and mounts it once in a production build.
Init ==
    /\ clock = 0
    /\ \/ initPending = 1 /\ runningRef = TRUE
       \/ initPending = 2 /\ runningRef = FALSE
    /\ videoPlaying = FALSE
    /\ isRunning = TRUE
    /\ lastTickRef = NULL
    /\ emotionCounts = ZeroTotals
    /\ emotionDurationsMs = ZeroTotals
    /\ emotionHistory = <<>>
    /\ currentState = InitialState
    /\ smoothedEmotions = EmptyMap
    /\ loops = [l \in LoopIds |-> IdleLoop]
    /\ ticksDone = 0
    /\ offUntil = NULL
    /\ baselineAt = NULL
    /\ frame = <<>>

\* ---------------------------------------------------------------- runLoop
\* Line 206.
DeltaMs(lp) == Max(0, lp.now - lp.prev)

\* Line 207.
BaselineAfterTickStartKept(t, last) == last

BaselineAfterTickStart(t, last) == t

\* Lines 204-208: the synchronous head of a tick, up to the await.
TickStart(lp, t, last) ==
    [loop |-> [lp EXCEPT !.pc = "detecting", !.now = t,
                         !.prev = IF last = NULL THEN t ELSE last,
                         !.wakeAt = 0],
     lastTick |-> BaselineAfterTickStart(t, last)]

\* Line 274.
Sleep(lp, t, failed) ==
    [lp EXCEPT !.pc = "sleeping", !.now = 0, !.prev = 0, !.wakeAt = t + TimerMs,
               !.failed = failed]

\* Line 201.
LoopGuardIgnored(running) == TRUE

LoopGuard(running) == running

\* One pass from the while condition to the next await.
LoopTopStopsAfterFailure(lp, running, video, t, last) ==
    IF ~running \/ lp.failed THEN [loop |-> IdleLoop, lastTick |-> last]
    ELSE IF video THEN TickStart(lp, t, last)
    ELSE [loop |-> Sleep(lp, t, lp.failed), lastTick |-> last]

LoopTop(lp, running, video, t, last) ==
    IF ~LoopGuard(running) THEN [loop |-> IdleLoop, lastTick |-> last]
    ELSE IF video THEN TickStart(lp, t, last)
    ELSE [loop |-> Sleep(lp, t, lp.failed), lastTick |-> last]

\* Lines 219-222.
AccumulateCountsAll(prev, topKey) == [k \in Keys |-> prev[k] + 1]

AccumulateCounts(prev, topKey) == [prev EXCEPT ![topKey] = prev[topKey] + 1]

\* Lines 225-228.
AccumulateDurationsNoDelta(prev, topKey, deltaMs) == [prev EXCEPT ![topKey] = prev[topKey] + TimerMs]

AccumulateDurations(prev, topKey, deltaMs) == [prev EXCEPT ![topKey] = prev[topKey] + deltaMs]

\* Lines 235-239: the new smoothed object holds the keys of the reading only.
SmoothReplaces(prev, emotionPercentages) == emotionPercentages

Smooth(prev, emotionPercentages) ==
    [k \in DOMAIN emotionPercentages |->
        LET prevValue == Lookup(prev, k)
        IN RAdd(prevValue, RMul(RSub(emotionPercentages[k], prevValue), smoothingFactor))]

\* Lines 242-249: the state cell after the updater, for a loop whose closure
\* holds closureState.
NextStateUnguarded(held, closureState, smoothed) ==
    LET newState == detectCurrentState(smoothed)
    IN IF newState # closureState THEN newState ELSE held

NextState(held, closureState, smoothed) ==
    LET newState == detectCurrentState(smoothed)
    IN IF newState # "" /\ newState # closureState THEN newState ELSE held

\* Lines 255-266.
AppendHistoryKeepsAll(prev, timestamp, expressions) ==
    Append(prev, [timestamp |-> timestamp, emotions |-> expressions])

AppendHistoryNewestFirst(prev, timestamp, expressions) ==
    LET newHistory == <<[timestamp |-> timestamp, emotions |-> expressions]>> \o prev
        cutoffTime == timestamp - timeWindowMs
    IN SelectSeq(newHistory, LAMBDA point : point.timestamp >= cutoffTime)

AppendHistory(prev, timestamp, expressions) ==
    LET newHistory == Append(prev, [timestamp |-> timestamp, emotions |-> expressions])
        cutoffTime == timestamp - timeWindowMs
    IN SelectSeq(newHistory, LAMBDA point : point.timestamp >= cutoffTime)

\* Lines 213-266: the updates a tick queues on the state cells.
TickCells(r, closureState, deltaMs, timestamp) ==
    LET top == TopEntry(r)
        smoothed == Smooth(smoothedEmotions, calculateEmotionPercentages(r))
    IN /\ emotionCounts' = AccumulateCounts(emotionCounts, top[1])
       /\ emotionDurationsMs' = AccumulateDurations(emotionDurationsMs, top[1], deltaMs)
       /\ smoothedEmotions' = smoothed
       /\ currentState' = NextState(currentState, closureState, smoothed)
       /\ emotionHistory' = AppendHistory(emotionHistory, timestamp, r)

\* The await resolves with a detection that carries expressions (lines 212-267).
DetectOk(l, r) ==
    /\ loops[l].pc = "detecting"
    /\ ticksDone < MaxTicks
    /\ TickCells(r, loops[l].closureState, DeltaMs(loops[l]), clock)
    /\ loops' = [loops EXCEPT ![l] = Sleep(loops[l], clock, FALSE)]
    /\ ticksDone' = ticksDone + 1
    /\ UNCHANGED <<frame, clock, controlVars, lastTickRef, offUntil, baselineAt>>

\* The await resolves with no face (line 212 is false).
NoDetect(l) ==
    /\ loops[l].pc = "detecting"
    /\ loops' = [loops EXCEPT ![l] = Sleep(loops[l], clock, FALSE)]
    /\ UNCHANGED <<frame, clock, controlVars, sessionVars, readingVars, lastTickRef, offUntil,
                   baselineAt>>

\* Lines 268-272.
BaselineAfterErrorKept(t, last) == last

BaselineAfterError(t, last) == t

\* The await rejects.
DetectError(l) ==
    /\ loops[l].pc = "detecting"
    /\ lastTickRef' = BaselineAfterError(clock, lastTickRef)
    /\ loops' = [loops EXCEPT ![l] = Sleep(loops[l], clock, TRUE)]
    /\ baselineAt' = clock
    /\ UNCHANGED <<frame, clock, controlVars, sessionVars, readingVars, offUntil>>

\* The timer of line 274 fires and the loop runs to its next await or returns.
Wake(l) ==
    /\ loops[l].pc = "sleeping"
    /\ clock >= loops[l].wakeAt
    /\ LET next == LoopTop(loops[l], runningRef, videoPlaying, clock, lastTickRef)
       IN /\ loops' = [loops EXCEPT ![l] = next.loop]
          /\ lastTickRef' = next.lastTick
          /\ baselineAt' = IF next.loop.pc = "detecting" THEN clock ELSE baselineAt
    /\ UNCHANGED <<frame, clock, controlVars, sessionVars, readingVars, offUntil>>

\* ------------------------------------------------------------------- init
\* Lines 159-181: the models load, the camera plays, the flag is set and a loop is started from
\* the first render's closure.
InitDone ==
    /\ initPending > 0
    /\ HasFreeSlot
    /\ initPending' = initPending - 1
    /\ videoPlaying' = TRUE
    /\ runningRef' = TRUE
    /\ LET next == LoopTop([IdleLoop EXCEPT !.closureState = InitialState],
                           TRUE, TRUE, clock, clock)
       IN /\ loops' = [loops EXCEPT ![FreeSlot] = next.loop]
          /\ lastTickRef' = next.lastTick
    /\ offUntil' = IF runningRef THEN offUntil ELSE clock
    /\ baselineAt' = clock
    /\ UNCHANGED <<frame, clock, isRunning, sessionVars, readingVars>>

\* Lines 182-185.
InitFail ==
    /\ initPending > 0
    /\ initPending' = initPending - 1
    /\ UNCHANGED <<frame, clock, videoPlaying, runningRef, isRunning, sessionVars, readingVars,
                   lastTickRef, loops, offUntil, baselineAt>>

\* --------------------------------------------------------------- handlers
\* Line 285.
BaselineAfterResumeKept(t, last) == last

BaselineAfterResume(t, last) == t

\* Lines 279-293, next = false.
Pause ==
    /\ isRunning
    /\ isRunning' = FALSE
    /\ runningRef' = FALSE
    /\ UNCHANGED <<frame, clock, initPending, videoPlaying, sessionVars, readingVars, lastTickRef,
                   loops, offUntil, baselineAt>>

\* Lines 279-293, next = true: a loop is started from the current render's closure.
Resume ==
    /\ ~isRunning
    /\ HasFreeSlot
    /\ isRunning' = TRUE
    /\ runningRef' = TRUE
    /\ LET next == LoopTop([IdleLoop EXCEPT !.closureState = currentState],
                           TRUE, videoPlaying, clock,
                           BaselineAfterResume(clock, lastTickRef))
       IN /\ loops' = [loops EXCEPT ![FreeSlot] = next.loop]
          /\ lastTickRef' = next.lastTick
    /\ offUntil' = IF runningRef THEN offUntil ELSE clock
    /\ baselineAt' = clock
    /\ UNCHANGED <<frame, clock, initPending, videoPlaying, sessionVars, readingVars>>

ResetSessionKeepsHistory ==
    /\ emotionCounts' = ZeroTotals
    /\ emotionDurationsMs' = ZeroTotals
    /\ UNCHANGED <<frame, clock, controlVars, readingVars, lastTickRef, loops, offUntil,
                   baselineAt, emotionHistory>>

\* Lines 296-300.
ResetSession ==
    /\ emotionCounts' = ZeroTotals
    /\ emotionDurationsMs' = ZeroTotals
    /\ emotionHistory' = <<>>
    /\ UNCHANGED <<frame, clock, controlVars, readingVars, lastTickRef, loops, offUntil,
                   baselineAt>>

\* ------------------------------------------------------------------- time
Advance ==
    /\ clock + ClockStep <= MaxClock * ClockStep
    /\ clock' = clock + ClockStep
    /\ UNCHANGED <<frame, controlVars, sessionVars, readingVars, lastTickRef, loops,
                   offUntil, baselineAt>>

Next ==
    \/ InitDone
    \/ InitFail
    \/ \E l \in LoopIds : \E r \in Readings : DetectOk(l, r)
    \/ \E l \in LoopIds : NoDetect(l)
    \/ \E l \in LoopIds : DetectError(l)
    \/ \E l \in LoopIds : Wake(l)
    \/ Pause
    \/ Resume
    \/ ResetSession
    \/ Advance

Spec == Init /\ [][Next]_vars

\* Time passes and an expired timer's callback runs.
LiveSpec == Spec /\ WF_vars(Advance) /\ \A l \in LoopIds : WF_vars(Wake(l))

\* ------------------------------------------------------- frame by frame
\* The production build left alone after start: one runLoop instance, no
\* pause, reset or failure, every tick applied to the frame in front of the
\* camera.  The first frame is any vector of FrameVectors; the frame may
\* change to one of Readings between the early ticks.
MaxSteps == 6        \* ticks in one frame-by-frame run
MaxChangeTick == 2   \* the frame may change until this many ticks are done

\* Object.entries order of the classifier's result object (line 213): the
\* order the library builds it in, or the declaration order of EMOTIONS.
SourceOrder == <<"neutral", "happy", "sad", "angry", "fearful", "disgusted", "surprised">>

KeyOrders == {SourceOrder, EMOTIONS}

Levels == {0, 2, 4, 6, 8, 10}

RECURSIVE SumKeys(_, _)
SumKeys(f, i) == IF i > Len(EMOTIONS) THEN 0 ELSE f[EMOTIONS[i]] + SumKeys(f, i + 1)

AsEntries(f, order) == [i \in 1..Len(order) |-> <<order[i], f[order[i]]>>]

FrameVectors ==
    {AsEntries(f, order) : f \in {g \in [Keys -> Levels] : SumKeys(g, 1) = 10},
                           order \in KeyOrders}
    \cup Readings

\* The state the start leaves (lines 159-181, production build): the first
\* tick of the one loop is awaiting the classifier.
FrameInit ==
    /\ frame \in FrameVectors
    /\ clock = 0
    /\ initPending = 0
    /\ videoPlaying = TRUE
    /\ runningRef = TRUE
    /\ isRunning = TRUE
    /\ LET first == LoopTop([IdleLoop EXCEPT !.closureState = InitialState],
                            TRUE, TRUE, 0, 0)
       IN /\ loops = [l \in LoopIds |-> IF l = 1 THEN first.loop ELSE IdleLoop]
          /\ lastTickRef = first.lastTick
    /\ emotionCounts = ZeroTotals
    /\ emotionDurationsMs = ZeroTotals
    /\ emotionHistory = <<>>
    /\ currentState = InitialState
    /\ smoothedEmotions = EmptyMap
    /\ ticksDone = 0
    /\ offUntil = NULL
    /\ baselineAt = 0

\* One undisturbed iteration (lines 201-275): the await resolves with the
\* frame's vector, the updates are applied, the timer runs out and the loop
\* reaches the next await.
FrameTick(l) ==
    /\ loops[l].pc = "detecting"
    /\ ticksDone < MaxSteps
    /\ TickCells(frame, loops[l].closureState, DeltaMs(loops[l]), clock)
    /\ LET wake == clock + TimerMs
           next == LoopTop(Sleep(loops[l], clock, FALSE), runningRef, videoPlaying,
                           wake, lastTickRef)
       IN /\ clock' = wake
          /\ loops' = [loops EXCEPT ![l] = next.loop]
          /\ lastTickRef' = next.lastTick
          /\ baselineAt' = wake
    /\ ticksDone' = ticksDone + 1
    /\ UNCHANGED <<frame, controlVars, offUntil>>

\* The subject's expression changes between two ticks.
NextFrame ==
    /\ ticksDone >= 1
    /\ ticksDone <= MaxChangeTick
    /\ frame' \in Readings \ {frame}
    /\ UNCHANGED <<clock, controlVars, sessionVars, readingVars, lastTickRef, loops,
                   offUntil, baselineAt>>

FrameNext ==
    \/ \E l \in LoopIds : FrameTick(l)
    \/ NextFrame

FrameSpec == FrameInit /\ [][FrameNext]_vars

\* ------------------------------------------------------- claim vocabulary
Detecting == {l \in LoopIds : loops[l].pc = "detecting"}

\* Loop l begins a ScoreSource invocation in this step.
Invokes(l) == loops[l].pc # "detecting" /\ loops'[l].pc = "detecting"

\* Loop l's pending invocation resolves with a ScoreVector in this step.
Succeeds(l) == loops[l].pc = "detecting" /\ loops'[l].pc = "sleeping" /\ ticksDone' = ticksDone + 1

\* Loop l's pending invocation throws in this step.
Fails(l) == loops[l].pc = "detecting" /\ loops'[l].pc = "sleeping" /\ loops'[l].failed

\* The ScoreVector of the tick applied in this step.
TickReading == emotionHistory'[Len(emotionHistory')].emotions

ProfileIndex(name) == CHOOSE i \in 1..Len(EMOTION_STATES) : EMOTION_STATES[i].name = name

ProfileNames == {EMOTION_STATES[i].name : i \in 1..Len(EMOTION_STATES)}

ProfileScore(name, smoothed) == avgDifference(EMOTION_STATES[ProfileIndex(name)], smoothed)

\* A successful tick's updates are applied in this step.
Ticks == ticksDone' = ticksDone + 1

\* resetSession changes the session cells in this step.
Resets == sessionVars' = <<ZeroTotals, ZeroTotals, <<>>>> /\ sessionVars' # sessionVars

\* The normalized reading of the tick applied in this step.
TickPercentages == calculateEmotionPercentages(TickReading)

KeyIndex(k) == CHOOSE i \in 1..Len(EMOTIONS) : EMOTIONS[i] = k

\* The raw score of every category in a ScoreVector.
Scores(expressions) == [k \in Keys |-> ScoreOf(expressions, k)]

RECURSIVE SumEntries(_, _)
SumEntries(m, i) ==
    IF i > Len(EMOTIONS) THEN RZero ELSE RAdd(Lookup(m, EMOTIONS[i]), SumEntries(m, i + 1))

\* The scenario of the concrete example: angry 0.7, happy, neutral and
\* surprised 0.1 each.
Scenario == Reading(1, 1, 0, 7, 0, 0, 1)

\* So far every tick of the run has been applied to the vector r.
OnlyTicksOf(r) ==
    /\ Len(emotionHistory) = ticksDone
    /\ \A i \in 1..Len(emotionHistory) : emotionHistory[i].emotions = r

RECURSIVE SumCounts(_, _)
SumCounts(counts, i) ==
    IF i > Len(EMOTIONS) THEN 0 ELSE counts[EMOTIONS[i]] + SumCounts(counts, i + 1)

\* ----------------------------------------------------------------- claims
\* C1: at most one tick is ever in flight: no two runLoop instances are
\* awaiting ScoreSource at the same time.
C1_SingleTickInFlight == Cardinality(Detecting) <= 1

\* C2: while the active flag stays false no loop starts a ScoreSource
\* invocation, and a loop whose timer fires returns instead of sleeping again.
C2_PauseStopsInvocations ==
    [][(~runningRef /\ ~runningRef') =>
        \A l \in LoopIds :
            /\ ~Invokes(l)
            /\ (loops[l].pc = "sleeping" /\ loops'[l] # loops[l]) => loops'[l].pc = "idle"]_vars

C2_Witness ==
    /\ ~runningRef /\ ~isRunning
    /\ Live = {}
    /\ initPending = 0
    /\ ticksDone > 0

C4_AbsentCategoriesKept ==
    [][\A l \in LoopIds : Succeeds(l) =>
        \A k \in DOMAIN smoothedEmotions :
            k \notin DOMAIN calculateEmotionPercentages(TickReading) =>
                k \in DOMAIN smoothedEmotions' /\ smoothedEmotions'[k] = smoothedEmotions[k]]_vars

\* C5 as stated, in the case it singles out: a tick that returns no detection
\* leaves the elapsed-time baseline where it was before that tick.
C5_NoDetectionKeepsBaseline ==
    [][\A l \in LoopIds :
        (Live = {l} /\ loops[l].pc = "detecting" /\ loops'[l].pc = "sleeping"
           /\ ~loops'[l].failed /\ ticksDone' = ticksDone)
        => lastTickRef' = loops[l].prev]_vars

\* C5 as amended: deltaMs is the time elapsed since the latest of the start of
\* the previous tick (successful or not, of any loop), a failure, a resume
\* and the start; a loop started by a resume or by the start begins at 0.
C5_DeltaSinceLastTickStart ==
    [][\A l \in LoopIds : Invokes(l) =>
        /\ loops'[l].now = clock
        /\ baselineAt' = clock
        /\ lastTickRef' = clock
        /\ IF loops[l].pc = "sleeping"
           THEN DeltaMs(loops'[l]) = clock - baselineAt
           ELSE DeltaMs(loops'[l]) = 0]_vars

C5_Witness ==
    \E l \in LoopIds :
        /\ loops[l].pc = "detecting"
        /\ DeltaMs(loops[l]) = ClockStep
        /\ emotionHistory # <<>>
        /\ emotionHistory[Len(emotionHistory)].timestamp < loops[l].prev

\* C6: a tick on which ScoreSource throws changes no totals, smoothed state,
\* engagement state or history and moves the baseline to the failure time;
\* the baseline never moves back and every tick measures from it, so no time
\* before the failure is counted by a tick that starts after it.
C6_FailureResetsBaseline ==
    [][/\ \A l \in LoopIds : Fails(l) =>
            /\ UNCHANGED <<emotionCounts, emotionDurationsMs, emotionHistory,
                           smoothedEmotions, currentState>>
            /\ lastTickRef' = clock
       /\ lastTickRef # NULL => lastTickRef' >= lastTickRef
       /\ \A l \in LoopIds : (Invokes(l) /\ lastTickRef # NULL) =>
            loops'[l].prev >= lastTickRef]_vars

C6_Witness ==
    \E l \in LoopIds :
        /\ loops[l].pc = "sleeping" /\ loops[l].failed
        /\ lastTickRef = clock
        /\ clock > 0
        /\ ticksDone > 0

\* C7: a loop that sleeps after a failed tick invokes ScoreSource again
\* unless the active flag goes false, as long as the clock can still advance.
C7_FailureDoesNotStopLoop ==
    \A l \in LoopIds :
        (loops[l].pc = "sleeping" /\ loops[l].failed /\ clock < MaxClock * ClockStep)
            ~> (loops[l].pc = "detecting" \/ ~runningRef)

C7_Witness ==
    \E l \in LoopIds :
        /\ loops[l].pc = "detecting"
        /\ loops[l].failed
        /\ runningRef

\* C8: a tick never measures from before the time the active flag last
\* turned on, and turning the flag on moves the baseline to that time.
C8_NoPausedTimeCounted ==
    [][/\ (~runningRef /\ runningRef') => lastTickRef' = clock
       /\ \A l \in LoopIds : Invokes(l) =>
            /\ runningRef'
            /\ offUntil' # NULL => loops'[l].prev >= offUntil']_vars

C8_Witness ==
    \E l \in LoopIds :
        /\ loops[l].pc = "detecting"
        /\ offUntil > 0
        /\ loops[l].prev = offUntil
        /\ loops[l].now > loops[l].prev
        /\ ticksDone > 0

\* C9: a successful tick adds 1 to the count and deltaMs to the duration of
\* its dominant category, on the totals as they are when it is applied, and
\* leaves every other category's count and duration unchanged.
C9_TickAddsToDominantOnly ==
    [][\A l \in LoopIds : Succeeds(l) =>
        LET d == TopEntry(TickReading)[1]
        IN \A k \in Keys :
            /\ emotionCounts'[k] = emotionCounts[k] + (IF k = d THEN 1 ELSE 0)
            /\ emotionDurationsMs'[k] =
                 emotionDurationsMs[k] + (IF k = d THEN DeltaMs(loops[l]) ELSE 0)]_vars

C9_Witness ==
    /\ ticksDone = 2
    /\ emotionCounts["angry"] = 1
    /\ emotionCounts["neutral"] = 0
    /\ emotionDurationsMs["angry"] = ClockStep
    /\ Cardinality(Live) = 2

\* C10: a step that returns the counts to zero (only reset does) leaves every
\* count and duration at zero, the history empty and no overall dominant
\* category.
C10_ResetClearsSession ==
    [][(emotionCounts # ZeroTotals /\ emotionCounts' = ZeroTotals) =>
        /\ emotionDurationsMs' = ZeroTotals
        /\ emotionHistory' = <<>>
        /\ overallKey(emotionCounts') = "null"]_vars

C10_Witness ==
    /\ ticksDone > 0
    /\ emotionCounts = ZeroTotals
    /\ emotionDurationsMs = ZeroTotals
    /\ emotionHistory = <<>>
    /\ overallKey(emotionCounts) = "null"

\* C11: a session reset leaves the smoothed state empty, and no tick drops a
\* category that holds a smoothed value.
C11_OnlyResetClearsSmoothed ==
    [][/\ Resets => smoothedEmotions' = EmptyMap
       /\ Ticks => \A k \in DOMAIN smoothedEmotions : k \in DOMAIN smoothedEmotions']_vars

\* C12: no point of the history is older than the newest point's timestamp
\* minus the window length.
C12_HistoryWithinWindow ==
    \A i, j \in 1..Len(emotionHistory) :
        emotionHistory[i].timestamp >= emotionHistory[j].timestamp - timeWindowMs

C12_Witness ==
    /\ Cardinality(Live) = 2
    /\ Len(emotionHistory) = 1
    /\ emotionHistory[1].timestamp = MaxClock * ClockStep
    /\ SumCounts(emotionCounts, 1) = 3

\* C13: before any tick has been applied the engagement state is none of the
\* five profile names.
C13_UndeterminedBeforeFirstTick == ticksDone = 0 => currentState \notin ProfileNames

\* C14: after a successful tick with a non-empty normalized reading no
\* profile scores strictly smaller against the new smoothed state than the
\* held state's profile.
C14_HeldStateIsClosest ==
    [][(Ticks /\ TickPercentages # EmptyMap) =>
        \A i \in 1..Len(EMOTION_STATES) :
            ~RLess(avgDifference(EMOTION_STATES[i], smoothedEmotions'),
                   ProfileScore(currentState', smoothedEmotions'))]_vars

\* C15: the normalized reading is empty exactly when the six non-neutral
\* scores sum to 0; otherwise it has one entry 100 * score / total for each of
\* the six non-neutral categories, none for neutral, and its entries sum to 100.
C15_PercentagesOfNonNeutral ==
    LET p == calculateEmotionPercentages(frame)
        score == Scores(frame)
        total == SumKeys(score, 1) - score["neutral"]
    IN /\ (p = EmptyMap) <=> (total = 0)
       /\ total # 0 =>
            /\ DOMAIN p = Keys \ {"neutral"}
            /\ \A c \in DOMAIN p : p[c][1] * total = 100 * score[c] * p[c][2]
            /\ SumEntries(p, 1) = RInt(100)

C15_Witness ==
    /\ ticksDone >= 1
    /\ emotionHistory[Len(emotionHistory)].emotions = frame
    /\ ScoreOf(frame, "neutral") > 0
    /\ LET p == calculateEmotionPercentages(frame)
       IN /\ p # EmptyMap
          /\ Cardinality({c \in DOMAIN p : p[c] # RZero}) >= 3
          /\ smoothedEmotions = Smooth(EmptyMap, p)

\* C16: a tick with a non-empty normalized reading p multiplies the distance
\* between every category's smoothed value (0 if it had none) and p by
\* 1 - alpha, so the distance strictly decreases while it is not zero.
C16_DistanceShrinksByAlpha ==
    [][(Ticks /\ TickPercentages # EmptyMap) =>
        \A c \in DOMAIN TickPercentages :
            LET p == TickPercentages[c]
                before == RAbs(RSub(Lookup(smoothedEmotions, c), p))
                after == RAbs(RSub(Lookup(smoothedEmotions', c), p))
            IN /\ c \in DOMAIN smoothedEmotions'
               /\ after = RMul(RSub(RInt(1), <<1, 10>>), before)
               /\ before # RZero => RLess(after, before)]_vars

C16_Witness ==
    /\ ticksDone = MaxSteps
    /\ OnlyTicksOf(frame)
    /\ LET p == calculateEmotionPercentages(frame)
       IN /\ p # EmptyMap
          /\ \E c \in DOMAIN p : RLess(RZero, smoothedEmotions[c]) /\ RLess(smoothedEmotions[c], p[c])

\* C17 as stated: in a run that feeds only the scenario's vector from an
\* empty smoothed state, Actively Resistant scores strictly smaller than
\* Highly Engaged after every tick, the first included.
C17_CloserFromFirstStep ==
    (ticksDone >= 1 /\ OnlyTicksOf(Scenario)) =>
        RLess(ProfileScore("Actively Resistant", smoothedEmotions),
              ProfileScore("Highly Engaged", smoothedEmotions))

\* C17 as amended: in such a run Highly Engaged scores strictly smaller after
\* the first and the second tick, and Actively Resistant scores strictly
\* smaller after every tick from the third on and at the limit, the
\* normalized reading itself.
C17_CloserFromThirdStep ==
    (ticksDone >= 1 /\ OnlyTicksOf(Scenario)) =>
        LET resistant == ProfileScore("Actively Resistant", smoothedEmotions)
            engaged == ProfileScore("Highly Engaged", smoothedEmotions)
            limit == calculateEmotionPercentages(Scenario)
        IN /\ ticksDone <= 2 => RLess(engaged, resistant)
           /\ ticksDone >= 3 => RLess(resistant, engaged)
           /\ RLess(ProfileScore("Actively Resistant", limit),
                    ProfileScore("Highly Engaged", limit))

C17_Witness ==
    /\ ticksDone = MaxSteps
    /\ OnlyTicksOf(Scenario)
    /\ frame = Scenario

\* C18: the overall dominant category is the first declared among the
\* categories with the largest count, and none exactly when every count is 0.
C18_OverallIsFirstLargest ==
    LET k == overallKey(emotionCounts)
    IN IF \A c \in Keys : emotionCounts[c] = 0 THEN k = "null"
       ELSE /\ k \in Keys
            /\ \A c \in Keys :
                 /\ emotionCounts[c] <= emotionCounts[k]
                 /\ emotionCounts[c] = emotionCounts[k] => KeyIndex(k) <= KeyIndex(c)

C18_Witness ==
    /\ emotionCounts["neutral"] = 1
    /\ emotionCounts["sad"] = 1
    /\ SumCounts(emotionCounts, 1) = 2
    /\ overallKey(emotionCounts) = "neutral"

\* C19: the category a tick counts has the maximum raw score of the tick's
\* vector and is the first declared among the categories with that score.
C19_DominantIsFirstDeclaredMax ==
    [][Ticks =>
        \A d \in Keys : emotionCounts'[d] # emotionCounts[d] =>
            LET score == Scores(TickReading)
            IN \A c \in Keys :
                /\ score[c] <= score[d]
                /\ score[c] = score[d] => KeyIndex(d) <= KeyIndex(c)]_vars

\* C20: a successful tick at time t leaves the previous points with a
\* timestamp of at least t - timeWindowMs, in their order, followed by the new
\* point, which carries t and all seven scores of the tick's vector, and the
\* history is ordered by non-decreasing timestamp.
C20_AppendAfterEviction ==
    [][Ticks =>
        LET kept == SelectSeq(emotionHistory,
                              LAMBDA point : point.timestamp >= clock - timeWindowMs)
            n == Len(emotionHistory')
        IN /\ n = Len(kept) + 1
           /\ SubSeq(emotionHistory', 1, n - 1) = kept
           /\ emotionHistory'[n].timestamp = clock
           /\ {emotionHistory'[n].emotions[i][1] : i \in 1..Len(emotionHistory'[n].emotions)} = Keys
           /\ Len(emotionHistory'[n].emotions) = Cardinality(Keys)
           /\ emotionCounts'[TopEntry(emotionHistory'[n].emotions)[1]]
                = emotionCounts[TopEntry(emotionHistory'[n].emotions)[1]] + 1
           /\ \A i, j \in 1..n :
                i <= j => emotionHistory'[i].timestamp <= emotionHistory'[j].timestamp]_vars

C20_Witness ==
    /\ Len(emotionHistory) = 2
    /\ emotionHistory[1].timestamp = ClockStep
    /\ emotionHistory[2].timestamp = 2 * ClockStep
    /\ SumCounts(emotionCounts, 1) = 3
    /\ Cardinality(Live) = 1

\* C21: a tick that leaves the smoothed state empty keeps the engagement
\* state, and after every tick the engagement state is a profile name.
C21_EmptySmoothedKeepsState ==
    [][Ticks =>
        /\ currentState' \in ProfileNames
        /\ smoothedEmotions' = EmptyMap =>
             (detectCurrentState(smoothedEmotions') = "" /\ currentState' = currentState)]_vars

C21_Witness ==
    /\ ticksDone = 3
    /\ smoothedEmotions = EmptyMap
    /\ currentState = "Constructively Struggling"
    /\ Len(emotionHistory) = 3

\* C22: the flag the loop reads equals the running state the control surface
\* holds.
C22_FlagMatchesControl == runningRef = isRunning

\* C23: the seven counts sum to the number of tick updates applied since the
\* last reset, or since the start: the sum starts at 0, a tick adds 1 to it,
\* a reset returns it to 0 and no other step changes it; and the history
\* never holds more points than that sum.
C23_CountsMatchTickUpdates ==
    /\ SumCounts(emotionCounts, 1) = 0
    /\ [][SumCounts(emotionCounts', 1) =
            IF Resets THEN 0
            ELSE IF Ticks THEN SumCounts(emotionCounts, 1) + 1
            ELSE SumCounts(emotionCounts, 1)]_vars
    /\ [](Len(emotionHistory) <= SumCounts(emotionCounts, 1))

C23_Witness ==
    /\ ticksDone = 3
    /\ SumCounts(emotionCounts, 1) = 2
    /\ Len(emotionHistory) = 1
    /\ emotionHistory[1].timestamp = 2 * ClockStep
    /\ emotionHistory[1].emotions = Scenario
    /\ emotionCounts["angry"] = 2

====
